---- MODULE Spec2Model ----
(***************************************************************************)
(* GripDL download engine: the DownloadManager registry, the per-download  *)
(* supervisor task, its segment workers, the pause / resume / cancel       *)
(* command handlers and the SQLite-backed persistence store.               *)
(*                                                                         *)
(* Sources: app/src-tauri/src/downloader.rs, persistence.rs, main.rs,      *)
(* bin/native-messaging-host.rs.                                           *)
(*                                                                         *)
(* Modelling conventions                                                   *)
(*  - Byte counts are the real ones (MIN_SEGMENT_SIZE = 1 MiB).            *)
(*  - A task step is one action; a load-modify-save of the store is two    *)
(*    steps (load, save) so that lost updates are visible.  An await that  *)
(*    only produces task-local values is merged with the load after it.    *)
(*  - The registry mutex is held by a command handler from its lookup to   *)
(*    its return (the guard is a temporary of the `if let` scrutinee), so  *)
(*    at most one handler is past its lookup; a call blocked on the mutex  *)
(*    is a call that has not been taken yet.                               *)
(*  - Spec is the engine with its control calls: network requests may     *)
(*    fail, the server answers with the bytes asked for, the store         *)
(*    succeeds, the download directory starts empty.  SpecFaults is the    *)
(*    engine without control calls where the server may answer with an     *)
(*    error page, writes to the store may fail and an earlier run has      *)
(*    left files behind.  SpecPlan and SpecStore evaluate the segment      *)
(*    planning and the persistence functions on their own, SpecBridge the  *)
(*    native-messaging loop and SpecPaths the naming of files.  SpecClock  *)
(*    lets seconds pass, SpecBurst makes more pause calls than the command *)
(*    channel holds, SpecIdle makes control calls outside a transfer.      *)
(*  - File and body contents are sequences of blocks of BlockSize bytes.   *)
(***************************************************************************)
EXTENDS Integers, Sequences, FiniteSets, TLC

\* ------------------------------------------------------------------ bounds
\* Control calls (pause / resume / cancel) taken in a run
MaxCalls == 2

\* ------------------------------------------------------- program constants
MAX_SEGMENTS == 32
MIN_SEGMENT_SIZE == 1048576
ProgressBoundary == 1048576
ChannelCapacity == 10

\* ------------------------------------------------------------- environment
\* The ids start_download mints (Uuid::new_v4), in the order it mints them
Ids == {1}
DownloadCommand == {"Pause", "Resume", "Cancel"}
\* Option<u64>::None
None == -1
\* What the probed server can answer to HEAD: content-length (or none) and
\* whether Accept-Ranges is "bytes"; size is the length of the resource.
HeadResponses ==
    { [size |-> 1048576, content_length |-> None,    accept_ranges |-> FALSE],
      [size |-> 1048576, content_length |-> 1048576, accept_ranges |-> TRUE],
      [size |-> 2097152, content_length |-> 2097152, accept_ranges |-> TRUE] }
\* Sizes in which a response body may be delivered by response.chunk()
ChunkSizes == {524288, 1048576}

\* File and body contents are kept in blocks of the smallest chunk size
BlockSize == 524288
\* Block k of the resource, a block left by an earlier run, a block of an
\* error page
ResourceBlock(k) == [src |-> "resource", k |-> k]
StaleBlock == [src |-> "stale", k |-> 0]
ErrorBlock == [src |-> "error", k |-> 0]
\* Bytes [from, from + len) of the resource
ResourceBlocks(from, len) ==
    [j \in 1..(len \div BlockSize) |-> ResourceBlock(from \div BlockSize + j - 1)]
\* len bytes of an error page
ErrorBlocks(len) == [j \in 1..(len \div BlockSize) |-> ErrorBlock]
\* The body of an error response
ErrorBodyLen == BlockSize

Min(a, b) == IF a < b THEN a ELSE b
Max(a, b) == IF a > b THEN a ELSE b

\* ------------------------------------------------------ DownloadStatus/Info
Pending == [tag |-> "Pending", reason |-> ""]
Downloading == [tag |-> "Downloading", reason |-> ""]
Paused == [tag |-> "Paused", reason |-> ""]
Completed == [tag |-> "Completed", reason |-> ""]
Failed(reason) == [tag |-> "Failed", reason |-> reason]
Cancelled == [tag |-> "Cancelled", reason |-> ""]

\* Paths are sequences of units: a unit is a piece of Unicode text or a byte
\* sequence that is not valid Unicode
InvalidUnit == "<ff>"
ReplacementChar == "U+FFFD"
\* download_dir.join(&file_name) for the file name of the download
DownloadPathOf(file_name) == <<"downloads", "/", file_name>>
\* The same in a download directory whose name is not valid Unicode
NonUnicodePathOf(file_name) == <<"downloads", InvalidUnit, "/", file_name>>

\* struct DownloadInfo with every field given
DownloadRecord(id, url, file_path, file_name, total_size, downloaded_size, status, cookies, referrer, user_agent, created_at, updated_at) ==
    [id |-> id, url |-> url, file_path |-> file_path, file_name |-> file_name,
     total_size |-> total_size, downloaded_size |-> downloaded_size, status |-> status,
     cookies |-> cookies, referrer |-> referrer, user_agent |-> user_agent,
     created_at |-> created_at, updated_at |-> updated_at]

\* Option<String>
NoString == <<>>
SomeString(string) == <<string>>

\* The record of the engine's download: one url and file, no cookies,
\* referrer or user agent, timestamps left at 0
DownloadInfo(id, total_size, downloaded_size, status) ==
    DownloadRecord(id, "http://host/file", DownloadPathOf("file"), "file",
                   total_size, downloaded_size, status,
                   NoString, NoString, NoString, 0, 0)

\* A task-local `info` that holds nothing
NoInfo == DownloadInfo(0, None, 0, Pending)

\* ------------------------------------------------------------- persistence
\* save_download: the status column
StatusStr(status) ==
    CASE status.tag = "Pending" -> "pending"
      [] status.tag = "Downloading" -> "downloading"
      [] status.tag = "Paused" -> "paused"
      [] status.tag = "Completed" -> "completed"
      [] status.tag = "Failed" -> "failed"
      [] status.tag = "Cancelled" -> "cancelled"

\* load_downloads: the status column read back
StatusFromStr(s) ==
    CASE s = "pending" -> Pending
      [] s = "downloading" -> Downloading
      [] s = "paused" -> Paused
      [] s = "completed" -> Completed
      [] s = "failed" -> Failed("Unknown error")
      [] s = "cancelled" -> Cancelled
      [] OTHER -> Pending

\* Path::to_string_lossy: what is not valid Unicode becomes U+FFFD
to_string_lossy(path) ==
    [k \in DOMAIN path |-> IF path[k] = InvalidUnit THEN ReplacementChar ELSE path[k]]

\* PathBuf::from(String)
PathBufFrom(string) == string

\* save_download: the row that `INSERT OR REPLACE INTO downloads (id, url,
\* file_path, ...) VALUES (?1, ?2, ?3, ...)` writes for params![...]
RowOf(info) ==
    [id |-> info.id,
     url |-> info.url,
     file_path |-> to_string_lossy(info.file_path),
     file_name |-> info.file_name,
     total_size |-> info.total_size,
     downloaded_size |-> info.downloaded_size,
     status |-> StatusStr(info.status),
     cookies |-> info.cookies,
     referrer |-> info.referrer,
     user_agent |-> info.user_agent,
     created_at |-> info.created_at,
     updated_at |-> info.updated_at]

\* load_downloads: the DownloadInfo built from row.get(0) .. row.get(11) of
\* `SELECT id, url, file_path, ... FROM downloads`
InfoOf(row) ==
    DownloadRecord(row.id, row.url, PathBufFrom(row.file_path), row.file_name,
                   row.total_size, row.downloaded_size, StatusFromStr(row.status),
                   row.cookies, row.referrer, row.user_agent,
                   row.created_at, row.updated_at)

\* INSERT OR REPLACE INTO downloads, id being the primary key
save_download(store, info) ==
    {r \in store : r.id # info.id} \cup {RowOf(info)}

load_downloads(store) == {InfoOf(r) : r \in store}

\* DELETE FROM downloads WHERE id = ?1
delete_download(store, id) == {r \in store : r.id # id}

HasDownload(store, id) == \E d \in load_downloads(store) : d.id = id

\* get_download_info(id).unwrap()
get_download_info(store, id) ==
    CHOOSE d \in load_downloads(store) : d.id = id

\* ------------------------------------------------------------------- state
VARIABLES
    db,                \* rows of table downloads
    active_downloads,  \* keys of the registry map (the value is the sender of chan[id])
    chan,              \* per id: commands queued in the mpsc channel
    sup,               \* per id: the supervisor task
    workers,           \* per id: the segment worker tasks, by segment index
    files,             \* per id: the final artifact and the part-files on disk
    events,            \* per id: download-update events emitted: how many, and the
                       \* record of the last one as a row of the store
    handler,           \* the command handler that holds the registry mutex
    ncalls,            \* control calls taken so far
    next_id,           \* ids minted so far + 1
    last_call,         \* per id: the last control call taken on it
    cancel_called,     \* per id: cancel_download was called on it
    cancel_midflight,  \* per id: cancel_download was called while transferring
    pause_effect,      \* per id: 0 no pause in effect; k>0: a pause taken during the
                       \* transfer has returned and k-1 chunks (2 or more for k = 3)
                       \* were written since
    unit,              \* the arguments and results of a function evaluated on its
                       \* own (segment planning, the store); idle in the engine
    now                \* SystemTime::now() in seconds since the engine started

vars == <<db, active_downloads, chan, sup, workers, files, events, handler,
          ncalls, next_id, last_call, cancel_called, cancel_midflight, pause_effect,
          unit, now>>

hist == <<last_call, cancel_called, cancel_midflight, pause_effect>>

engine == <<db, active_downloads, chan, sup, workers, files, events, handler,
            ncalls, next_id, hist, now>>

\* midflight: the call was taken while the supervisor was transferring
IdleHandler == [pc |-> "idle", op |-> "none", id |-> 0, info |-> NoInfo, midflight |-> FALSE]

\* outcome: the status the supervisor saved on its way out of the loop
NoSupervisor ==
    [pc |-> "unspawned", paused |-> FALSE, cancelled |-> FALSE, info |-> NoInfo,
     size |-> 0, total_size |-> None, supports_range |-> FALSE, downloaded |-> 0,
     outcome |-> "none"]

NoCall == [seq |-> 0, op |-> "none", sent |-> FALSE, result |-> "Ok"]

\* The download directory holds nothing of the download
NoFiles == [artifact |-> FALSE, final_data |-> <<>>, parts |-> {}, part_data |-> <<>>]

\* write_all at block offset pos of a file opened without truncation: the
\* blocks replace what was there, anything after them stays
WriteAt(data, pos, blocks) ==
    [j \in 1..Max(Len(data), pos + Len(blocks)) |->
        IF j <= pos THEN data[j]
        ELSE IF j <= pos + Len(blocks) THEN blocks[j - pos]
        ELSE data[j]]

\* The manager after DownloadManager::new
ManagerInit ==
    /\ db = {}
    /\ active_downloads = {}
    /\ chan = [i \in Ids |-> <<>>]
    /\ sup = [i \in Ids |-> NoSupervisor]
    /\ workers = [i \in Ids |-> <<>>]
    /\ events = [i \in Ids |-> [n |-> 0, last |-> RowOf(NoInfo)]]
    /\ handler = IdleHandler
    /\ ncalls = 0
    /\ next_id = 1
    /\ last_call = [i \in Ids |-> NoCall]
    /\ cancel_called = [i \in Ids |-> FALSE]
    /\ cancel_midflight = [i \in Ids |-> FALSE]
    /\ pause_effect = [i \in Ids |-> 0]
    /\ now = 0

\* The engine started on an empty download directory
EngineInit == ManagerInit /\ files = [i \in Ids |-> NoFiles]

\* No function is being evaluated on its own
Init == EngineInit /\ unit = [fn |-> "none"]

\* The registry mutex (parking_lot::Mutex around the HashMap)
LockFree == handler.pc = "idle"

\* info.updated_at = SystemTime::now()...as_secs(), set right before a save
Stamped(info) == [info EXCEPT !.updated_at = now]

\* emit_download_update(&info)
Emit(info) ==
    events' = [events EXCEPT ![info.id] = [n |-> @.n + 1, last |-> RowOf(info)]]

\* A chunk of the download was written to disk
ChunkWritten(id) ==
    pause_effect' = [pause_effect EXCEPT ![id] = IF @ = 0 THEN 0 ELSE Min(@ + 1, 3)]

\* ---------------------------------------------------------- start_download
\* Mints the id, saves the Pending record, inserts the sender into the
\* registry, spawns the supervisor and emits the record.
start_download ==
    /\ next_id \in Ids
    /\ LockFree
    /\ LET id == next_id
           info == [DownloadInfo(id, None, 0, Pending) EXCEPT
                       !.created_at = now, !.updated_at = now]
       IN /\ db' = save_download(db, info)
          /\ chan' = [chan EXCEPT ![id] = <<>>]
          /\ active_downloads' = active_downloads \cup {id}
          /\ sup' = [sup EXCEPT ![id] = [NoSupervisor EXCEPT !.pc = "select"]]
          /\ Emit(info)
          /\ next_id' = next_id + 1
    /\ UNCHANGED <<workers, files, handler, ncalls, hist, unit, now>>

\* ------------------------------------------- pause / resume / cancel calls
\* Supervisor positions where response bodies are being streamed to disk
Transferring == {"single_chunk", "single_progress", "join"}

\* Bytes of id written to disk so far by its supervisor and workers
BytesWritten(id) ==
    IF sup[id].downloaded > 0 THEN sup[id].downloaded
    ELSE IF \E i \in DOMAIN workers[id] : workers[id][i].downloaded > 0 THEN 1 ELSE 0

PersistedStatus(id) ==
    IF \E r \in db : r.id = id THEN (CHOOSE r \in db : r.id = id).status ELSE "absent"

\* A handler that publishes the status it was asked for although no sender was found
NoSender_Emits(op, id) ==
    /\ handler' = IdleHandler
    /\ last_call' = [last_call EXCEPT ![id] =
                        [seq |-> ncalls + 1, op |-> op, sent |-> FALSE, result |-> "Ok"]]
    /\ events' = [events EXCEPT ![id].n = @ + 1]
    /\ UNCHANGED <<db, chan>>

\* `if let Some(tx) = ...get(id)` found no sender: the call returns Ok(())
NoSender(op, id) ==
    /\ handler' = IdleHandler
    /\ last_call' = [last_call EXCEPT ![id] =
                        [seq |-> ncalls + 1, op |-> op, sent |-> FALSE, result |-> "Ok"]]
    /\ UNCHANGED <<db, chan, events>>

\* `if let Some(tx) = self.active_downloads.lock().get(id)`: the lookup of a
\* control call.  Absent id: the call returns at once.  Present id: the
\* handler goes on, with the registry mutex held, to tx.send(cmd).
ControlCallWithin(op, id, limit) ==
    /\ ncalls < limit
    /\ LockFree
    /\ ncalls' = ncalls + 1
    /\ IF id \in active_downloads
       THEN /\ handler' = [pc |-> "send", op |-> op, id |-> id, info |-> NoInfo,
                            midflight |-> sup[id].pc \in Transferring]
            /\ last_call' = [last_call EXCEPT ![id] =
                  [seq |-> ncalls + 1, op |-> op, sent |-> TRUE, result |-> "pending"]]
            /\ UNCHANGED <<db, chan, events>>
       ELSE NoSender(op, id)
    /\ cancel_called' = [cancel_called EXCEPT ![id] = @ \/ op = "Cancel"]
    /\ cancel_midflight' = [cancel_midflight EXCEPT ![id] =
            @ \/ ( /\ op = "Cancel"
                   /\ id \in active_downloads
                   /\ sup[id].pc \in Transferring
                   /\ PersistedStatus(id) = "downloading"
                   /\ BytesWritten(id) > 0 )]
    /\ pause_effect' = [pause_effect EXCEPT ![id] = IF op = "Resume" THEN 0 ELSE @]
    /\ UNCHANGED <<active_downloads, sup, workers, files, next_id, unit, now>>

\* A control call of a run with at most MaxCalls of them
ControlCall(op, id) == ControlCallWithin(op, id, MaxCalls)

pause_download(id) == ControlCall("Pause", id)

resume_download(id) == ControlCall("Resume", id)

cancel_download(id) == ControlCall("Cancel", id)

\* tx.send(cmd).await: waits for capacity in the bounded channel
HandlerSend ==
    /\ handler.pc = "send"
    /\ Len(chan[handler.id]) < ChannelCapacity
    /\ chan' = [chan EXCEPT ![handler.id] = Append(@, handler.op)]
    /\ handler' = [handler EXCEPT !.pc = "load"]
    /\ UNCHANGED <<db, active_downloads, sup, workers, files, events, ncalls, next_id, unit, now, hist>>

\* The status a control call writes into the record it loaded
StatusOfCall(op) ==
    CASE op = "Pause" -> Paused
      [] op = "Resume" -> Downloading
      [] op = "Cancel" -> Cancelled

\* let mut info = self.get_download_info(id).await.unwrap(); info.status = ...
HandlerLoad ==
    /\ handler.pc = "load"
    /\ HasDownload(db, handler.id)
    /\ handler' = [handler EXCEPT
                      !.pc = "save",
                      !.info = [get_download_info(db, handler.id) EXCEPT
                                   !.status = StatusOfCall(handler.op)]]
    /\ UNCHANGED <<db, active_downloads, chan, sup, workers, files, events, ncalls, next_id, unit, now, hist>>

\* self.persistence.save_download(&info)?; emit; Ok(()) (the mutex is released)
HandlerSave ==
    /\ handler.pc = "save"
    /\ db' = save_download(db, Stamped(handler.info))
    /\ Emit(Stamped(handler.info))
    /\ handler' = IdleHandler
    /\ last_call' = [last_call EXCEPT ![handler.id].result = "Ok"]
    /\ pause_effect' = [pause_effect EXCEPT ![handler.id] =
            IF handler.op = "Pause" /\ handler.midflight /\ sup[handler.id].pc \in Transferring
            THEN 1 ELSE @]
    /\ UNCHANGED <<active_downloads, chan, sup, workers, files, ncalls, next_id, unit, now,
                   cancel_called, cancel_midflight>>

\* -------------------------------------------------------------- supervisor
\* select!: cmd = rx.recv()
SupRecv(id) ==
    /\ sup[id].pc = "select"
    /\ chan[id] # <<>>
    /\ chan' = [chan EXCEPT ![id] = Tail(@)]
    /\ LET cmd == Head(chan[id])
       IN sup' = [sup EXCEPT ![id] =
            CASE cmd = "Pause" -> [@ EXCEPT !.paused = TRUE]
              [] cmd = "Resume" -> [@ EXCEPT !.paused = FALSE]
              [] cmd = "Cancel" -> [@ EXCEPT !.cancelled = TRUE, !.pc = "remove"]]
    /\ UNCHANGED <<db, active_downloads, workers, files, events, handler, ncalls, next_id, unit, now, hist>>

\* select!: the 100 ms sleep elapsed and `!paused && !cancelled`: the arm
\* awaits download_file to its end (rx is not polled meanwhile)
SupTick(id) ==
    /\ sup[id].pc = "select"
    /\ ~sup[id].paused /\ ~sup[id].cancelled
    /\ sup' = [sup EXCEPT ![id].pc = "head"]
    /\ UNCHANGED <<db, active_downloads, chan, workers, files, events, handler, ncalls, next_id, unit, now, hist>>

\* download_file returned Err(e): the supervisor loads the record and sets Failed(e)
Fail(id, reason) ==
    /\ HasDownload(db, id)
    /\ sup' = [sup EXCEPT ![id].pc = "failed",
                          ![id].info = [get_download_info(db, id) EXCEPT
                                           !.status = Failed(reason)]]

\* HEAD request, then the record is loaded and set to Downloading
SupHead(id) ==
    /\ sup[id].pc = "head"
    /\ \/ \E h \in HeadResponses :
            /\ HasDownload(db, id)
            /\ sup' = [sup EXCEPT
                  ![id].pc = "set_downloading",
                  ![id].size = h.size,
                  ![id].total_size = h.content_length,
                  ![id].supports_range = h.accept_ranges,
                  ![id].info = [get_download_info(db, id) EXCEPT
                                   !.total_size = h.content_length,
                                   !.status = Downloading]]
       \/ Fail(id, "head request failed")
    /\ UNCHANGED <<db, active_downloads, chan, workers, files, events, handler, ncalls, next_id, unit, now, hist>>

\* A segment count without its lower clamp
calculate_segments_Unclamped(total_size) ==
    Min(MAX_SEGMENTS, total_size \div MIN_SEGMENT_SIZE)

\* MAX_SEGMENTS.min((total_size / MIN_SEGMENT_SIZE) as usize).max(1)
calculate_segments(total_size) ==
    Max(Min(MAX_SEGMENTS, total_size \div MIN_SEGMENT_SIZE), 1)

\* download_file after the probe: the early returns into
\* download_single_threaded, else download_segmented
DownloadPath(supports_range, total_size) ==
    IF ~supports_range \/ total_size = None
    THEN "single"
    ELSE IF calculate_segments(total_size) <= 1 THEN "single" ELSE "segmented"

\* download_segmented: the byte range of segment i of num_segments
SegmentStart(i, total_size, num_segments) == i * (total_size \div num_segments)

\* A last segment that is cut like the others
SegmentEnd_Uniform(i, total_size, num_segments) ==
    (i + 1) * (total_size \div num_segments) - 1

SegmentEnd(i, total_size, num_segments) ==
    IF i = num_segments - 1
    THEN total_size - 1
    ELSE (i + 1) * (total_size \div num_segments) - 1

NewWorker(i, total_size, num_segments) ==
    [pc |-> "open",
     start |-> SegmentStart(i, total_size, num_segments),
     end |-> SegmentEnd(i, total_size, num_segments),
     http_status |-> 0, body_len |-> 0,
     downloaded |-> 0, reported |-> 0, info |-> NoInfo]

\* save Downloading and emit; then the choice of path: single-stream, or
\* download_segmented spawning one worker task per segment
SupSetDownloading(id) ==
    /\ sup[id].pc = "set_downloading"
    /\ db' = save_download(db, sup[id].info)
    /\ Emit(sup[id].info)
    /\ LET total_size == sup[id].total_size
           num_segments == calculate_segments(total_size)
       IN IF DownloadPath(sup[id].supports_range, total_size) = "single"
          THEN /\ sup' = [sup EXCEPT ![id].pc = "single_get", ![id].info = NoInfo]
               /\ UNCHANGED workers
          ELSE /\ sup' = [sup EXCEPT ![id].pc = "join", ![id].info = NoInfo]
               /\ workers' = [workers EXCEPT ![id] =
                     [i \in 0..(num_segments - 1) |-> NewWorker(i, total_size, num_segments)]]
    /\ UNCHANGED <<active_downloads, chan, files, handler, ncalls, next_id, unit, now, hist>>

\* download_single_threaded: client.get(url).send(), File::create(file_path)
SupSingleGet(id) ==
    /\ sup[id].pc = "single_get"
    /\ \/ /\ sup' = [sup EXCEPT ![id].pc = "single_chunk", ![id].downloaded = 0]
          /\ files' = [files EXCEPT ![id].artifact = TRUE, ![id].final_data = <<>>]
       \/ /\ Fail(id, "get request failed")
          /\ UNCHANGED files
    /\ UNCHANGED <<db, active_downloads, chan, workers, events, handler, ncalls, next_id, unit, now, hist>>

\* A progress update that adds the running total to the loaded size
SingleProgressSize_Accumulated(loaded, downloaded) == loaded + downloaded

\* download_single_threaded: `info.downloaded_size = downloaded`
SingleProgressSize(loaded, downloaded) == downloaded

\* download_single_threaded: response.chunk() gives a chunk (written to the
\* file, then the record is loaded), the end of the body (the record is
\* loaded and set to Completed), or an error
SupSingleChunk(id) ==
    /\ sup[id].pc = "single_chunk"
    /\ HasDownload(db, id)
    /\ LET remaining == sup[id].size - sup[id].downloaded
       IN \/ /\ remaining > 0
             /\ \E c \in ChunkSizes :
                  LET len == Min(c, remaining)
                  IN /\ sup' = [sup EXCEPT
                           ![id].pc = "single_progress",
                           ![id].downloaded = @ + len,
                           ![id].info = [get_download_info(db, id) EXCEPT
                                            !.downloaded_size =
                                                SingleProgressSize(@, sup[id].downloaded + len)]]
                     /\ files' = [files EXCEPT ![id].final_data =
                                     @ \o ResourceBlocks(sup[id].downloaded, len)]
             /\ ChunkWritten(id)
          \/ /\ remaining = 0
             /\ sup' = [sup EXCEPT
                   ![id].pc = "single_completed",
                   ![id].info = [get_download_info(db, id) EXCEPT
                                    !.status = Completed,
                                    !.downloaded_size = sup[id].downloaded]]
             /\ UNCHANGED <<files, pause_effect>>
          \/ /\ remaining > 0
             /\ Fail(id, "error decoding response body")
             /\ UNCHANGED <<files, pause_effect>>
    /\ UNCHANGED <<db, active_downloads, chan, workers, events, handler, ncalls,
                   next_id, unit, now, last_call, cancel_called, cancel_midflight>>

\* download_single_threaded: save and emit the progress
SupSingleProgress(id) ==
    /\ sup[id].pc = "single_progress"
    /\ db' = save_download(db, Stamped(sup[id].info))
    /\ Emit(Stamped(sup[id].info))
    /\ sup' = [sup EXCEPT ![id].pc = "single_chunk", ![id].info = NoInfo]
    /\ UNCHANGED <<active_downloads, chan, workers, files, handler, ncalls, next_id, unit, now, hist>>

\* download_single_threaded: save and emit Completed; download_file returns Ok
SupSingleCompleted(id) ==
    /\ sup[id].pc = "single_completed"
    /\ db' = save_download(db, Stamped(sup[id].info))
    /\ Emit(Stamped(sup[id].info))
    /\ sup' = [sup EXCEPT ![id].pc = "remove", ![id].info = NoInfo,
                          ![id].outcome = "completed"]
    /\ UNCHANGED <<active_downloads, chan, workers, files, handler, ncalls, next_id, unit, now, hist>>

\* ---------------------------------------------------------- segment worker
\* OpenOptions::new().create(true).write(true).open(segment_file): a
\* part-file already there is opened as it is, else an empty one is created
OpenPart(f, i) ==
    [f EXCEPT !.parts = @ \cup {i},
              !.part_data = [j \in f.parts \cup {i} |->
                                IF j \in f.parts THEN f.part_data[j] ELSE <<>>]]

\* download_segment: the part-file is opened, then the ranged GET is sent:
\* it is answered 206 with the bytes of the range, or fails
WorkerOpen(id, i) ==
    /\ i \in DOMAIN workers[id]
    /\ workers[id][i].pc = "open"
    /\ files' = [files EXCEPT ![id] = OpenPart(@, i)]
    /\ \/ workers' = [workers EXCEPT
             ![id][i].pc = "chunk",
             ![id][i].http_status = 206,
             ![id][i].body_len = workers[id][i].end - workers[id][i].start + 1]
       \/ workers' = [workers EXCEPT ![id][i].pc = "err"]
    /\ UNCHANGED <<db, active_downloads, chan, sup, events, handler, ncalls, next_id, unit, now, hist>>

\* download_segment: `downloaded % (1024 * 1024) == 0` after a chunk
AtProgressBoundary(downloaded) == downloaded % ProgressBoundary = 0

\* download_segment: response.chunk() gives a chunk (written to the part-file;
\* at a progress boundary the record is loaded and chunk.len() added to its
\* downloaded_size), the end of the body, or an error
WorkerChunk(id, i) ==
    /\ i \in DOMAIN workers[id]
    /\ workers[id][i].pc = "chunk"
    /\ HasDownload(db, id)
    /\ LET w == workers[id][i]
           remaining == w.body_len - w.downloaded
       IN \/ /\ remaining > 0
             /\ \E c \in ChunkSizes :
                  LET len == Min(c, remaining)
                      blocks == IF w.http_status = 206
                                THEN ResourceBlocks(w.start + w.downloaded, len)
                                ELSE ErrorBlocks(len)
                  IN /\ IF AtProgressBoundary(w.downloaded + len)
                        THEN workers' = [workers EXCEPT
                               ![id][i].pc = "progress",
                               ![id][i].downloaded = @ + len,
                               ![id][i].info = [get_download_info(db, id) EXCEPT
                                                   !.downloaded_size = @ + len]]
                        ELSE workers' = [workers EXCEPT ![id][i].downloaded = @ + len]
                     /\ files' = [files EXCEPT ![id].part_data[i] =
                                     WriteAt(@, w.downloaded \div BlockSize, blocks)]
             /\ ChunkWritten(id)
          \/ /\ remaining = 0
             /\ workers' = [workers EXCEPT ![id][i].pc = "ok"]
             /\ UNCHANGED <<files, pause_effect>>
          \/ /\ remaining > 0
             /\ workers' = [workers EXCEPT ![id][i].pc = "err"]
             /\ UNCHANGED <<files, pause_effect>>
    /\ UNCHANGED <<db, active_downloads, chan, sup, events, handler, ncalls,
                   next_id, unit, now, last_call, cancel_called, cancel_midflight>>

\* download_segment: save and emit the progress
WorkerProgress(id, i) ==
    /\ i \in DOMAIN workers[id]
    /\ workers[id][i].pc = "progress"
    /\ db' = save_download(db, Stamped(workers[id][i].info))
    /\ Emit(Stamped(workers[id][i].info))
    /\ workers' = [workers EXCEPT ![id][i].pc = "chunk",
                                  ![id][i].reported = workers[id][i].downloaded,
                                  ![id][i].info = NoInfo]
    /\ UNCHANGED <<active_downloads, chan, sup, files, handler, ncalls, next_id, unit, now, hist>>

\* ------------------------------------------------- supervisor, segmented
\* A join that collects the workers' results without looking at them
JoinResult_Unchecked(ws) ==
    IF \A i \in DOMAIN ws : ws[i].pc \in {"ok", "err"} THEN "ok" ELSE "pending"

\* download_segmented: `for handle in handles { results.push(handle.await??) }`
\* gives Err at the first handle, in index order, whose worker failed
JoinResult(ws) ==
    IF \A i \in DOMAIN ws : ws[i].pc = "ok" THEN "ok"
    ELSE IF \E k \in DOMAIN ws :
               /\ ws[k].pc = "err"
               /\ \A j \in DOMAIN ws : j < k => ws[j].pc = "ok"
         THEN "err"
         ELSE "pending"

SupJoin(id) ==
    /\ sup[id].pc = "join"
    /\ JoinResult(workers[id]) # "pending"
    /\ IF JoinResult(workers[id]) = "ok"
       THEN sup' = [sup EXCEPT ![id].pc = "merge"]
       ELSE Fail(id, "segment failed")
    /\ UNCHANGED <<db, active_downloads, chan, workers, files, events, handler, ncalls, next_id, unit, now, hist>>

\* A merge that leaves the part-files behind
PartsAfterMerge_Kept(parts, merged) == parts

\* merge_segments: `tokio::fs::remove_file(&segment_file)` for every part copied
PartsAfterMerge(parts, merged) == parts \ merged

\* merge_segments: tokio::io::copy of the whole of parts i .. n-1, in order
RECURSIVE CopyParts(_, _, _)
CopyParts(part_data, i, n) ==
    IF i >= n THEN <<>> ELSE part_data[i] \o CopyParts(part_data, i + 1, n)

\* merge_segments (File::create of the final file, every part copied in
\* index order and removed), then the record is loaded and set to Completed
SupMerge(id) ==
    /\ sup[id].pc = "merge"
    /\ HasDownload(db, id)
    /\ LET f == files[id]
           left == PartsAfterMerge(f.parts, DOMAIN workers[id])
       IN files' = [files EXCEPT ![id] =
            [artifact |-> TRUE,
             final_data |-> CopyParts(f.part_data, 0, Cardinality(DOMAIN workers[id])),
             parts |-> left,
             part_data |-> [j \in left |-> f.part_data[j]]]]
    /\ sup' = [sup EXCEPT
          ![id].pc = "seg_completed",
          ![id].info = [get_download_info(db, id) EXCEPT
                           !.status = Completed,
                           !.downloaded_size = sup[id].total_size]]
    /\ UNCHANGED <<db, active_downloads, chan, workers, events, handler, ncalls, next_id, unit, now, hist>>

\* download_segmented: save and emit Completed; download_file returns Ok
SupSegCompleted(id) ==
    /\ sup[id].pc = "seg_completed"
    /\ db' = save_download(db, Stamped(sup[id].info))
    /\ Emit(Stamped(sup[id].info))
    /\ sup' = [sup EXCEPT ![id].pc = "remove", ![id].info = NoInfo,
                          ![id].outcome = "completed"]
    /\ UNCHANGED <<active_downloads, chan, workers, files, handler, ncalls, next_id, unit, now, hist>>

\* ------------------------------------------------- supervisor, exit paths
\* `let _ = save_download(&info)` of the Failed record, emit, break
SupFailed(id) ==
    /\ sup[id].pc = "failed"
    /\ db' = save_download(db, Stamped(sup[id].info))
    /\ Emit(Stamped(sup[id].info))
    /\ sup' = [sup EXCEPT ![id].pc = "remove", ![id].info = NoInfo,
                          ![id].outcome = "failed"]
    /\ UNCHANGED <<active_downloads, chan, workers, files, handler, ncalls, next_id, unit, now, hist>>

\* A supervisor that ends without removing its id
RegistryAfterExit_Kept(registry, id) == registry

\* The registry after the supervisor's last statement
RegistryAfterExit(registry, id) == registry \ {id}

\* manager_clone.active_downloads.lock().remove(&id_clone); the task ends
SupRemove(id) ==
    /\ sup[id].pc = "remove"
    /\ LockFree
    /\ active_downloads' = RegistryAfterExit(active_downloads, id)
    /\ sup' = [sup EXCEPT ![id].pc = "exited"]
    /\ UNCHANGED <<db, chan, workers, files, events, handler, ncalls, next_id, unit, now, hist>>

\* ------------------------------------------------------------ specification
\* The segment indexes download_segmented can spawn a worker for
SegmentIndex == 0..(MAX_SEGMENTS - 1)

Next ==
    \/ start_download
    \/ \E id \in Ids : pause_download(id)
    \/ \E id \in Ids : resume_download(id)
    \/ \E id \in Ids : cancel_download(id)
    \/ HandlerSend
    \/ HandlerLoad
    \/ HandlerSave
    \/ \E id \in Ids : SupRecv(id)
    \/ \E id \in Ids : SupTick(id)
    \/ \E id \in Ids : SupHead(id)
    \/ \E id \in Ids : SupSetDownloading(id)
    \/ \E id \in Ids : SupSingleGet(id)
    \/ \E id \in Ids : SupSingleChunk(id)
    \/ \E id \in Ids : SupSingleProgress(id)
    \/ \E id \in Ids : SupSingleCompleted(id)
    \/ \E id \in Ids : \E i \in SegmentIndex : WorkerOpen(id, i)
    \/ \E id \in Ids : \E i \in SegmentIndex : WorkerChunk(id, i)
    \/ \E id \in Ids : \E i \in SegmentIndex : WorkerProgress(id, i)
    \/ \E id \in Ids : SupJoin(id)
    \/ \E id \in Ids : SupMerge(id)
    \/ \E id \in Ids : SupSegCompleted(id)
    \/ \E id \in Ids : SupFailed(id)
    \/ \E id \in Ids : SupRemove(id)

Spec == Init /\ [][Next]_vars

\* --------------------------------- specification: faults of the environment
\* The engine without control calls, run on a download directory that an
\* earlier run has used, against a server that may answer a ranged GET with
\* an error page and a store whose writes may fail.

\* Statuses of an error answer
ErrorStatuses == {404, 416, 500}

\* Part-files an earlier run may have left: none, or segment 0 shorter or
\* longer than the segment of this run
PriorParts ==
    { <<>>, (0 :> <<StaleBlock>>), (0 :> <<StaleBlock, StaleBlock, StaleBlock>>) }

\* What the paths of the download may hold before it starts
PriorFiles ==
    { [artifact |-> a, final_data |-> IF a THEN <<StaleBlock>> ELSE <<>>,
       parts |-> DOMAIN pd, part_data |-> pd] : a \in BOOLEAN, pd \in PriorParts }

InitFaults ==
    /\ ManagerInit
    /\ files \in [Ids -> PriorFiles]
    /\ unit = [fn |-> "none"]

\* start_download: save_download(&info)? of the Pending record fails and the
\* call returns the error: nothing is registered, spawned or emitted
StartSaveFails ==
    /\ next_id \in Ids
    /\ LockFree
    /\ next_id' = next_id + 1
    /\ UNCHANGED <<db, active_downloads, chan, sup, workers, files, events, handler,
                   ncalls, hist, unit, now>>

\* download_segment: the ranged GET is answered with an error status;
\* send() returns Ok and the status is not looked at, so the worker goes on
\* to stream the error page into its part-file
WorkerOpenErrorStatus(id, i) ==
    /\ i \in DOMAIN workers[id]
    /\ workers[id][i].pc = "open"
    /\ files' = [files EXCEPT ![id] = OpenPart(@, i)]
    /\ \E st \in ErrorStatuses :
          workers' = [workers EXCEPT
             ![id][i].pc = "chunk",
             ![id][i].http_status = st,
             ![id][i].body_len = ErrorBodyLen]
    /\ UNCHANGED <<db, active_downloads, chan, sup, events, handler, ncalls, next_id, unit, now, hist>>

\* download_segment: save_download(&info)? fails and the worker returns the error
WorkerSaveFails(id, i) ==
    /\ i \in DOMAIN workers[id]
    /\ workers[id][i].pc = "progress"
    /\ workers' = [workers EXCEPT ![id][i].pc = "err", ![id][i].info = NoInfo]
    /\ UNCHANGED <<db, active_downloads, chan, sup, files, events, handler, ncalls,
                   next_id, unit, now, hist>>

\* download_file, download_single_threaded, download_segmented:
\* save_download(&info)? fails and the error is returned to the supervisor
SupSaveFails(id) ==
    /\ sup[id].pc \in {"set_downloading", "single_progress", "single_completed",
                       "seg_completed"}
    /\ Fail(id, "database error")
    /\ UNCHANGED <<db, active_downloads, chan, workers, files, events, handler, ncalls,
                   next_id, unit, now, hist>>

\* `let _ = save_download(&info)` of the Failed record fails: the result is
\* dropped, the record is emitted, the loop is left
SupFailedSaveFails(id) ==
    /\ sup[id].pc = "failed"
    /\ Emit(Stamped(sup[id].info))
    /\ sup' = [sup EXCEPT ![id].pc = "remove", ![id].info = NoInfo]
    /\ UNCHANGED <<db, active_downloads, chan, workers, files, handler, ncalls,
                   next_id, unit, now, hist>>

NextFaults ==
    \/ start_download
    \/ StartSaveFails
    \/ \E id \in Ids : SupTick(id)
    \/ \E id \in Ids : SupHead(id)
    \/ \E id \in Ids : SupSetDownloading(id)
    \/ \E id \in Ids : SupSingleGet(id)
    \/ \E id \in Ids : SupSingleChunk(id)
    \/ \E id \in Ids : SupSingleProgress(id)
    \/ \E id \in Ids : SupSingleCompleted(id)
    \/ \E id \in Ids : \E i \in SegmentIndex : WorkerOpen(id, i)
    \/ \E id \in Ids : \E i \in SegmentIndex : WorkerOpenErrorStatus(id, i)
    \/ \E id \in Ids : \E i \in SegmentIndex : WorkerChunk(id, i)
    \/ \E id \in Ids : \E i \in SegmentIndex : WorkerProgress(id, i)
    \/ \E id \in Ids : \E i \in SegmentIndex : WorkerSaveFails(id, i)
    \/ \E id \in Ids : SupJoin(id)
    \/ \E id \in Ids : SupMerge(id)
    \/ \E id \in Ids : SupSegCompleted(id)
    \/ \E id \in Ids : SupSaveFails(id)
    \/ \E id \in Ids : SupFailed(id)
    \/ \E id \in Ids : SupFailedSaveFails(id)
    \/ \E id \in Ids : SupRemove(id)

SpecFaults == InitFaults /\ [][NextFaults]_vars

\* ------------------------------------- specification: a burst of pause calls
\* The engine under more pause calls than the command channel has room for,
\* all of them made while the supervisor is inside download_file (where it
\* does not poll the channel, and after which it leaves its loop).

\* Pause calls of a burst: one more than ChannelCapacity
MaxBurst == 11

\* The supervisor of id is between the start and the return of download_file
InDownloadFile(id) ==
    sup[id].pc \notin {"none", "select", "failed", "remove", "exited"}

\* pause_download, called up to MaxBurst times during the transfer
pause_download_burst(id) ==
    /\ InDownloadFile(id)
    /\ ControlCallWithin("Pause", id, MaxBurst)

NextBurst ==
    \/ start_download
    \/ \E id \in Ids : pause_download_burst(id)
    \/ HandlerSend
    \/ HandlerLoad
    \/ HandlerSave
    \/ \E id \in Ids : SupTick(id)
    \/ \E id \in Ids : SupHead(id)
    \/ \E id \in Ids : SupSetDownloading(id)
    \/ \E id \in Ids : SupSingleGet(id)
    \/ \E id \in Ids : SupSingleChunk(id)
    \/ \E id \in Ids : SupSingleProgress(id)
    \/ \E id \in Ids : SupSingleCompleted(id)
    \/ \E id \in Ids : \E i \in SegmentIndex : WorkerOpen(id, i)
    \/ \E id \in Ids : \E i \in SegmentIndex : WorkerChunk(id, i)
    \/ \E id \in Ids : \E i \in SegmentIndex : WorkerProgress(id, i)
    \/ \E id \in Ids : SupJoin(id)
    \/ \E id \in Ids : SupMerge(id)
    \/ \E id \in Ids : SupSegCompleted(id)
    \/ \E id \in Ids : SupFailed(id)
    \/ \E id \in Ids : SupRemove(id)

SpecBurst == Init /\ [][NextBurst]_vars

\* --------------------------- specification: control calls before a transfer
\* The engine under control calls that are made only while the supervisor is
\* not inside download_file: before its first tick, or once it has left it.

\* Control calls of such a run
MaxIdleCalls == 3

\* pause_download / resume_download / cancel_download outside a transfer
IdleCall(op, id) ==
    /\ ~InDownloadFile(id)
    /\ ControlCallWithin(op, id, MaxIdleCalls)

NextIdle ==
    \/ start_download
    \/ \E id \in Ids : \E op \in DownloadCommand : IdleCall(op, id)
    \/ HandlerSend
    \/ HandlerLoad
    \/ HandlerSave
    \/ \E id \in Ids : SupRecv(id)
    \/ \E id \in Ids : SupTick(id)
    \/ \E id \in Ids : SupHead(id)
    \/ \E id \in Ids : SupSetDownloading(id)
    \/ \E id \in Ids : SupSingleGet(id)
    \/ \E id \in Ids : SupSingleChunk(id)
    \/ \E id \in Ids : SupSingleProgress(id)
    \/ \E id \in Ids : SupSingleCompleted(id)
    \/ \E id \in Ids : \E i \in SegmentIndex : WorkerOpen(id, i)
    \/ \E id \in Ids : \E i \in SegmentIndex : WorkerChunk(id, i)
    \/ \E id \in Ids : \E i \in SegmentIndex : WorkerProgress(id, i)
    \/ \E id \in Ids : SupJoin(id)
    \/ \E id \in Ids : SupMerge(id)
    \/ \E id \in Ids : SupSegCompleted(id)
    \/ \E id \in Ids : SupFailed(id)
    \/ \E id \in Ids : SupRemove(id)

SpecIdle == Init /\ [][NextIdle]_vars

\* ------------------------------------------ specification: names of files
\* Two downloads started one after the other, both live: the file names
\* start_download gives them and the files download_file writes for them.
\* A string is the sequence of its pieces, "/", "?" and "." being pieces.

\* URLs asked for: a file, the same file name in another directory, with a
\* query, a directory (no file name), another file, and a file whose name
\* looks like a part-file
Urls ==
    { <<"http:", "/", "/", "host", "/", "a", "/", "f">>,
      <<"http:", "/", "/", "host", "/", "b", "/", "f">>,
      <<"http:", "/", "/", "host", "/", "a", "/", "f", "?", "k=v">>,
      <<"http:", "/", "/", "host", "/", "a", "/">>,
      <<"http:", "/", "/", "host", "/", "g">>,
      <<"http:", "/", "/", "host", "/", "f", ".part", ".", "0">> }

\* Uuid::new_v4().to_string(): its first 8 characters and the rest
Uuids == { <<"0f8fad5b", "-d9cb-469f-a165-70867728950e">>,
           <<"7c9e6679", "-7425-40de-944b-e07fc1f90ae7">> }

\* s.split(sep).last(): what follows the last sep of s (s itself without one)
SplitLast(s, sep) ==
    LET at == {i \in 1..Len(s) : s[i] = sep}
    IN IF at = {} THEN s
       ELSE SubSeq(s, (CHOOSE i \in at : \A j \in at : j <= i) + 1, Len(s))

\* s.split(sep).next(): what precedes the first sep of s (s itself without one)
SplitFirst(s, sep) ==
    LET at == {i \in 1..Len(s) : s[i] = sep}
    IN IF at = {} THEN s
       ELSE SubSeq(s, 1, (CHOOSE i \in at : \A j \in at : i <= j) - 1)

\* extract_filename: the last path component without its query; None (the
\* empty sequence) when that is empty
extract_filename(url) == SplitFirst(SplitLast(url, "/"), "?")

\* id.chars().take(8)
Take8(id) == id[1]

\* extract_filename(&url).unwrap_or_else(|| format!("download_{}", first 8 of id))
FileName(url, id) ==
    IF extract_filename(url) # <<>> THEN extract_filename(url)
    ELSE <<"download_", Take8(id)>>

\* downloads_dir.join(&file_name)
FilePath(file_name) == <<"downloads", "/">> \o file_name

\* temp_dir.join(format!("{}.{}", temp_base, i)), temp_base = "<file_name>.part"
SegmentFile(file_path, i) == file_path \o <<".part", ".", ToString(i)>>

\* The files download_file creates, writes, reads or removes for a probe
\* answer: the final path, and on the segmented path the part-files too
FilesWritten(file_path, head) ==
    IF DownloadPath(head.accept_ranges, head.content_length) = "single"
    THEN {file_path}
    ELSE {file_path} \cup
         {SegmentFile(file_path, i) : i \in 0..(calculate_segments(head.content_length) - 1)}

\* The two downloads: distinct ids, any URLs, any probe answers
PathInputs ==
    { [fn |-> "paths",
       d |-> [k \in 1..2 |->
                [url |-> u[k], id |-> ids[k], head |-> h[k], pc |-> "start",
                 file_name |-> <<>>, file_path |-> <<>>, written |-> {}]]] :
        u \in [1..2 -> Urls],
        ids \in {f \in [1..2 -> Uuids] : f[1] # f[2]},
        h \in [1..2 -> HeadResponses] }

InitPaths == EngineInit /\ unit \in PathInputs

\* start_download: file_name and file_path of download k
PathsStart(k) ==
    /\ unit.fn = "paths"
    /\ unit.d[k].pc = "start"
    /\ LET file_name == FileName(unit.d[k].url, unit.d[k].id)
       IN unit' = [unit EXCEPT !["d"][k].pc = "live",
                               !["d"][k].file_name = file_name,
                               !["d"][k].file_path = FilePath(file_name)]
    /\ UNCHANGED engine

\* download_file of download k, to its end
PathsTransfer(k) ==
    /\ unit.fn = "paths"
    /\ unit.d[k].pc = "live"
    /\ unit' = [unit EXCEPT !["d"][k].pc = "transferred",
                            !["d"][k].written =
                                FilesWritten(unit.d[k].file_path, unit.d[k].head)]
    /\ UNCHANGED engine

NextPaths ==
    \/ \E k \in 1..2 : PathsStart(k)
    \/ \E k \in 1..2 : PathsTransfer(k)

SpecPaths == InitPaths /\ [][NextPaths]_vars

\* ------------------------------------------------- specification: the clock
\* The engine without control calls while the clock of the system advances.

\* Seconds that pass during a run
MaxClock == 2

\* A second passes
ClockTick ==
    /\ now < MaxClock
    /\ now' = now + 1
    /\ UNCHANGED <<db, active_downloads, chan, sup, workers, files, events, handler,
                   ncalls, next_id, hist, unit>>

NextClock ==
    \/ ClockTick
    \/ start_download
    \/ \E id \in Ids : SupTick(id)
    \/ \E id \in Ids : SupHead(id)
    \/ \E id \in Ids : SupSetDownloading(id)
    \/ \E id \in Ids : SupSingleGet(id)
    \/ \E id \in Ids : SupSingleChunk(id)
    \/ \E id \in Ids : SupSingleProgress(id)
    \/ \E id \in Ids : SupSingleCompleted(id)
    \/ \E id \in Ids : \E i \in SegmentIndex : WorkerOpen(id, i)
    \/ \E id \in Ids : \E i \in SegmentIndex : WorkerChunk(id, i)
    \/ \E id \in Ids : \E i \in SegmentIndex : WorkerProgress(id, i)
    \/ \E id \in Ids : SupJoin(id)
    \/ \E id \in Ids : SupMerge(id)
    \/ \E id \in Ids : SupSegCompleted(id)
    \/ \E id \in Ids : SupFailed(id)
    \/ \E id \in Ids : SupRemove(id)

SpecClock == Init /\ [][NextClock]_vars

\* ------------------------------------------------ specification: the store
\* save_download, load_downloads and delete_download called on their own.

\* Ids of the records saved and deleted
StoreIds == {1, 2}

\* Every DownloadStatus, Failed with two reasons
Statuses ==
    {Pending, Downloading, Paused, Completed, Cancelled,
     Failed("connection reset"), Failed("Unknown error")}

\* The records handed to save_download: optional fields present or absent,
\* file paths in a download directory with or without a Unicode name
StoreRecords ==
    { DownloadRecord(id, "http://host/file", file_path, "file", total_size, 7, status,
                     cookies, NoString, SomeString("UA"), 1, 2) :
        id \in StoreIds,
        file_path \in {DownloadPathOf("file"), NonUnicodePathOf("file")},
        total_size \in {None, 7},
        status \in Statuses,
        cookies \in {NoString, SomeString("")} }

\* before: the rows before the last call; arg: the record or the id it was given
InitStore ==
    /\ EngineInit
    /\ unit = [fn |-> "store", store |-> {}, before |-> {}, op |-> "none",
                arg |-> DownloadInfo(0, None, 0, Pending)]

StoreSave ==
    /\ unit.fn = "store"
    /\ \E r \in StoreRecords :
          unit' = [unit EXCEPT !.store = save_download(unit.store, r),
                               !.before = {}, !.op = "save", !.arg = r]
    /\ UNCHANGED engine

StoreDelete ==
    /\ unit.fn = "store"
    /\ \E id \in StoreIds :
          unit' = [unit EXCEPT !.store = delete_download(unit.store, id),
                               !.before = unit.store, !.op = "delete",
                               !.arg = DownloadInfo(id, None, 0, Pending)]
    /\ UNCHANGED engine

NextStore == StoreSave \/ StoreDelete

SpecStore == InitStore /\ [][NextStore]_vars

\* ------------------------------------------ specification: browser bridge
\* The read loop of the native messaging host, run on a byte stream.

\* Frames the browser sends before its end of the pipe closes
MaxFrames == 3

\* Payload bytes.  123 and 125 are the braces of a JSON object, 117 stands
\* for a member "url":"...", 44 99 for a further member ,"cookies":"...";
\* 110 is text that is not JSON
RequestPayloads == { <<123, 117, 125>>, <<123, 117, 44, 99, 125>> }
Payloads == RequestPayloads \cup { <<>>, <<123, 125>>, <<110>> }

\* serde_json::from_slice::<NativeMessage>(&buffer) is Ok: an object with a url
ParsesAsRequest(buffer) == buffer \in RequestPayloads

\* u32::to_le_bytes
to_le_bytes(n) ==
    <<n % 256, (n \div 256) % 256, (n \div 65536) % 256, (n \div 16777216) % 256>>

\* A length prefix read with the most significant byte first
from_le_bytes_BigEndian(b) == 16777216 * b[1] + 65536 * b[2] + 256 * b[3] + b[4]

\* u32::from_le_bytes
from_le_bytes(b) == b[1] + 256 * b[2] + 65536 * b[3] + 16777216 * b[4]

\* What the browser writes for the payloads it sends, one frame each
RECURSIVE FrameBytes(_)
FrameBytes(payloads) ==
    IF payloads = <<>> THEN <<>>
    ELSE to_le_bytes(Len(Head(payloads))) \o Head(payloads) \o FrameBytes(Tail(payloads))

\* All sequences of at most n payloads
RECURSIVE PayloadSeqs(_)
PayloadSeqs(n) ==
    IF n = 0 THEN { <<>> }
    ELSE LET shorter == PayloadSeqs(n - 1)
         IN shorter \cup { Append(q, p) : q \in {x \in shorter : Len(x) = n - 1},
                                          p \in Payloads }

\* NativeResponse
NativeResponse(success, message) == [success |-> success, message |-> message]

\* sent: the payloads the browser sent; cut: the bytes of them that arrived
\* before the end of input; stdin: the bytes not yet read
InitBridge ==
    /\ EngineInit
    /\ \E payloads \in PayloadSeqs(MaxFrames) :
         \E cut \in 0..Len(FrameBytes(payloads)) :
            unit = [fn |-> "bridge", sent |-> payloads, cut |-> cut,
                    stdin |-> SubSeq(FrameBytes(payloads), 1, cut),
                    pc |-> "length", length |-> 0, buffer |-> <<>>,
                    stdout |-> <<>>, result |-> "running"]

\* reader.read_exact(&mut length_bytes): break at the end of input, else
\* the length is decoded and a length of 0 starts the loop again
BridgeReadLength ==
    /\ unit.fn = "bridge"
    /\ unit.pc = "length"
    /\ IF Len(unit.stdin) < 4
       THEN unit' = [unit EXCEPT !.pc = "exited", !.stdin = <<>>, !.result = "Ok"]
       ELSE LET length == from_le_bytes(SubSeq(unit.stdin, 1, 4))
            IN unit' = [unit EXCEPT
                  !.stdin = SubSeq(@, 5, Len(@)),
                  !.length = length,
                  !.pc = IF length = 0 THEN "length" ELSE "payload"]
    /\ UNCHANGED engine

\* reader.read_exact(&mut buffer) of `length` bytes: break at the end of input
BridgeReadPayload ==
    /\ unit.fn = "bridge"
    /\ unit.pc = "payload"
    /\ IF Len(unit.stdin) < unit.length
       THEN unit' = [unit EXCEPT !.pc = "exited", !.stdin = <<>>, !.result = "Ok"]
       ELSE unit' = [unit EXCEPT
               !.buffer = SubSeq(unit.stdin, 1, unit.length),
               !.stdin = SubSeq(@, unit.length + 1, Len(@)),
               !.pc = "parse"]
    /\ UNCHANGED engine

\* serde_json::from_slice, then send_response: "Invalid message format" on
\* a parse error, success otherwise; the loop goes on
BridgeRespond ==
    /\ unit.fn = "bridge"
    /\ unit.pc = "parse"
    /\ unit' = [unit EXCEPT
          !.stdout = Append(@,
              IF ParsesAsRequest(unit.buffer)
              THEN NativeResponse(TRUE, NoString)
              ELSE NativeResponse(FALSE, SomeString("Invalid message format"))),
          !.buffer = <<>>,
          !.pc = "length"]
    /\ UNCHANGED engine

NextBridge == BridgeReadLength \/ BridgeReadPayload \/ BridgeRespond

SpecBridge == InitBridge /\ [][NextBridge]_vars

\* ------------------------------------------- specification: segment planning
\* Whole mebibytes up to which resource sizes are drawn
MaxMiB == 34

\* Resource sizes: around every multiple of MIN_SEGMENT_SIZE up to MaxMiB
TotalSizes ==
    { k * MIN_SEGMENT_SIZE + r : k \in 0..MaxMiB, r \in {0, 1, MIN_SEGMENT_SIZE - 1} } \ {0}

\* What the probe of download_file hands to the choice of path
PlanInputs ==
    [fn : {"plan"}, total_size : TotalSizes \cup {None}, supports_range : BOOLEAN,
     path : {"none"}, num_segments : {None}, segments : {<<>>}]

InitPlan == EngineInit /\ unit \in PlanInputs

\* download_file: which transfer function the probe's result leads to
PlanPath ==
    /\ unit.fn = "plan"
    /\ unit.path = "none"
    /\ unit' = [unit EXCEPT !.path = DownloadPath(unit.supports_range, unit.total_size)]
    /\ UNCHANGED engine

\* let num_segments = self.calculate_segments(total_size)
PlanCount ==
    /\ unit.fn = "plan"
    /\ unit.total_size # None
    /\ unit.num_segments = None
    /\ unit' = [unit EXCEPT !.num_segments = calculate_segments(unit.total_size)]
    /\ UNCHANGED engine

\* download_segmented: one round of `for i in 0..num_segments`
PlanSegment ==
    /\ unit.fn = "plan"
    /\ unit.num_segments # None
    /\ Len(unit.segments) < unit.num_segments
    /\ LET i == Len(unit.segments)
       IN unit' = [unit EXCEPT !.segments = Append(@,
              [start |-> SegmentStart(i, unit.total_size, unit.num_segments),
               end |-> SegmentEnd(i, unit.total_size, unit.num_segments)])]
    /\ UNCHANGED engine

NextPlan == PlanPath \/ PlanCount \/ PlanSegment

SpecPlan == InitPlan /\ [][NextPlan]_vars

\* ------------------------------------------------------------------ claims
TerminalStatus == {"completed", "failed", "cancelled"}

HasRow(store, id) == \E r \in store : r.id = id

RowOfId(store, id) == CHOOSE r \in store : r.id = id

\* The download of id is over: its supervisor and workers have ended and no
\* command handler is running
Quiescent(id) ==
    /\ sup[id].pc = "exited"
    /\ handler.pc = "idle"
    /\ \A i \in DOMAIN workers[id] : workers[id][i].pc \in {"ok", "err"}

RECURSIVE SumReported(_, _)
SumReported(ws, S) ==
    IF S = {} THEN 0
    ELSE LET i == CHOOSE x \in S : TRUE
         IN ws[i].reported + SumReported(ws, S \ {i})

\* C1: terminal states are sticky: once the persisted status of an id is
\* completed, failed or cancelled, no step changes its row (deleting it apart).
C1_TerminalSticky ==
    [][\A r \in db : r.status \in TerminalStatus => (r \in db' \/ ~HasRow(db', r.id))]_vars

\* C2: cancel mid-flight: after cancel_download was called while the
\* supervisor was transferring (status downloading, bytes written), the merge
\* never runs, and once the download is over the status is cancelled and the
\* id is out of the registry.
C2_CancelMidFlight ==
    \A id \in Ids : cancel_midflight[id] =>
        /\ sup[id].pc # "seg_completed"
        /\ Quiescent(id) => (PersistedStatus(id) = "cancelled" /\ id \notin active_downloads)

\* C3: pause ceases I/O: after a pause_download taken during the transfer has
\* returned, and until resume_download is called, at most one further chunk
\* is written.
C3_PauseCeasesIO == \A id \in Ids : pause_effect[id] <= 2

\* C4: no orphaned Paused record: a persisted status paused implies that the
\* id is in the registry and its supervisor has not exited.
C4_NoOrphanedPaused ==
    \A id \in Ids : PersistedStatus(id) = "paused" =>
        (id \in active_downloads /\ sup[id].pc \notin {"unspawned", "exited"})

\* C5: liveness after resume, as its final result: when the download is over,
\* the last control call on the live id was resume_download and cancel was
\* never called, the persisted status is completed or failed.
C5_ResumeEndsTerminal ==
    \A id \in Ids :
        ( /\ Quiescent(id)
          /\ last_call[id].op = "Resume" /\ last_call[id].sent
          /\ ~cancel_called[id] )
        => PersistedStatus(id) \in {"completed", "failed"}

C7_AbsentIdNoOp ==
    [][\A id \in Ids :
         (ncalls' = ncalls + 1 /\ last_call'[id].seq = ncalls' /\ id \notin active_downloads)
         => /\ last_call'[id].result = "Ok"
            /\ ~last_call'[id].sent
            /\ handler' = IdleHandler
            /\ UNCHANGED <<db, chan, active_downloads, events>>]_vars

\* C7 witness: a control call was taken on an id whose supervisor had exited,
\* and returned without sending.
C7_Witness ==
    \E id \in Ids :
        /\ sup[id].pc = "exited"
        /\ last_call[id].op \in DownloadCommand
        /\ ~last_call[id].sent
        /\ last_call[id].result = "Ok"

\* C8: control-plane calls do not write persistence: no step of a command
\* handler changes the store.
C8_HandlersDoNotPersist ==
    [][handler' # handler => db' = db]_vars

\* C9: no race-reset of progress: while an id is in the registry, no step
\* lowers its persisted downloaded_size.
C9_ProgressMonotone ==
    [][\A id \in active_downloads :
         (HasRow(db, id) /\ HasRow(db', id))
         => RowOfId(db', id).downloaded_size >= RowOfId(db, id).downloaded_size]_vars

\* C10: progress accounting: a worker whose byte count crosses a 1 MiB
\* boundary publishes a progress update, and after each published update the
\* persisted downloaded_size is the sum of the bytes the workers have reported.
C10_ProgressAccounting ==
    [][\A id \in Ids : \A i \in DOMAIN workers[id] :
         /\ ( /\ i \in DOMAIN workers'[id]
              /\ workers'[id][i].downloaded \div ProgressBoundary
                    > workers[id][i].downloaded \div ProgressBoundary )
            => workers'[id][i].pc = "progress"
         /\ ( /\ i \in DOMAIN workers'[id]
              /\ workers[id][i].pc = "progress"
              /\ workers'[id][i].pc = "chunk" )
            => RowOfId(db', id).downloaded_size = SumReported(workers'[id], DOMAIN workers'[id])]_vars

\* C11: every persisted record whose total_size is known has
\* downloaded_size <= total_size, across worker updates, control-call
\* writes and the final Completed write (the server returns exactly the
\* bytes asked for)
C11_DownloadedWithinTotal ==
    \A r \in db : r.total_size # None => r.downloaded_size <= r.total_size

\* A record still Downloading that concurrent workers have brought up to its total
C11_Witness ==
    \E r \in db :
        /\ r.total_size # None
        /\ r.status = "downloading"
        /\ r.downloaded_size = r.total_size
        /\ Cardinality(DOMAIN workers[r.id]) > 1
        /\ \A i \in DOMAIN workers[r.id] : workers[r.id][i].reported > 0

\* The supervisor of id saves a Completed record in this step
CompletedPersisted(id) ==
    /\ sup[id].pc \in {"single_completed", "seg_completed"}
    /\ sup'[id].pc = "remove"

RECURSIVE SumLengths(_)
SumLengths(segments) ==
    IF segments = <<>> THEN 0
    ELSE Head(segments).end - Head(segments).start + 1 + SumLengths(Tail(segments))

\* The loop of download_segmented has planned every segment
PlanComplete ==
    /\ unit.fn = "plan"
    /\ unit.num_segments # None
    /\ Len(unit.segments) = unit.num_segments

\* C13: for every total_size >= 1 the planned ranges start at 0, end at
\* total_size - 1, follow one another without gap or overlap, are each
\* non-empty and have lengths that sum to total_size
C13_PlanPartitions ==
    PlanComplete =>
        LET seg == unit.segments
            N == unit.num_segments
        IN /\ N >= 1
           /\ seg[1].start = 0
           /\ seg[N].end = unit.total_size - 1
           /\ \A i \in 1..(N - 1) : seg[i + 1].start = seg[i].end + 1
           /\ \A i \in 1..N : seg[i].start <= seg[i].end
           /\ SumLengths(seg) = unit.total_size

\* A complete plan of MAX_SEGMENTS segments whose last one takes a remainder
C13_Witness ==
    /\ PlanComplete
    /\ unit.num_segments = MAX_SEGMENTS
    /\ unit.total_size % MAX_SEGMENTS # 0

\* C14: the segment count is max(1, min(MAX_SEGMENTS, floor(total_size /
\* MIN_SEGMENT_SIZE))), so 1 <= N <= 32 and N > 1 needs at least
\* 2 * MIN_SEGMENT_SIZE bytes (10 MiB gives 10); the segmented path is
\* taken exactly when ranges are supported, the size is known and N > 1
C14_SegmentCount ==
    /\ (unit.fn = "plan" /\ unit.num_segments # None) =>
          LET N == unit.num_segments
              q == unit.total_size \div MIN_SEGMENT_SIZE
          IN /\ N = (IF q < 1 THEN 1 ELSE IF q > MAX_SEGMENTS THEN MAX_SEGMENTS ELSE q)
             /\ 1 <= N /\ N <= 32
             /\ N > 1 => unit.total_size >= 2 * MIN_SEGMENT_SIZE
             /\ unit.total_size = 10 * MIN_SEGMENT_SIZE => N = 10
    /\ (unit.fn = "plan" /\ unit.path # "none") =>
          ( unit.path = "segmented" <=>
              /\ unit.supports_range
              /\ unit.total_size # None
              /\ unit.total_size >= 2 * MIN_SEGMENT_SIZE )

\* Ten segments counted for 10 MiB, and the segmented path chosen for it
C14_Witness ==
    /\ unit.fn = "plan"
    /\ unit.total_size = 10 * MIN_SEGMENT_SIZE
    /\ unit.num_segments = 10
    /\ unit.path = "segmented"

\* A segment worker of id has returned an error
WorkerFailed(id) == \E i \in DOMAIN workers[id] : workers[id][i].pc = "err"

C16_ErrorStatusFails ==
    \A id \in Ids :
        (\E i \in DOMAIN workers[id] : workers[id][i].http_status \in ErrorStatuses) =>
            /\ sup[id].outcome # "completed"
            /\ \A j \in DOMAIN files[id].final_data : files[id].final_data[j] # ErrorBlock

\* C17: a segmented download that reached Completed against a server that
\* returned exactly the ranges asked for has as its artifact the bytes
\* [0, total_size) of the resource in order, whatever the part-file paths
\* and the final path held before
C17_MergeFidelity ==
    \A id \in Ids :
        ( /\ sup[id].outcome = "completed"
          /\ DOMAIN workers[id] # {}
          /\ \A i \in DOMAIN workers[id] : workers[id][i].http_status = 206 )
        => files[id].final_data = ResourceBlocks(0, sup[id].total_size)

\* C18: every download-update event carries a record that a successful
\* save has written before the emit
C18_PersistBeforeEmit ==
    [][\A id \in Ids : events'[id].n # events[id].n => events'[id].last \in db']_vars

\* The changes of persisted status the lifecycle diagram has
LifecycleTransitions ==
    { <<"pending", "downloading">>, <<"downloading", "paused">>,
      <<"paused", "downloading">>, <<"downloading", "cancelled">>,
      <<"paused", "cancelled">>, <<"downloading", "completed">>,
      <<"downloading", "failed">> }

\* C19: the supervisor has persisted Downloading when it issues the HEAD
\* probe, and every change of a record's persisted status is one of
\* Pending->Downloading, Downloading->Paused, Paused->Downloading,
\* {Downloading, Paused}->Cancelled, Downloading->Completed,
\* Downloading->Failed
C19_StatusTransitions ==
    [][\A id \in Ids :
          /\ (sup[id].pc = "head" /\ sup'[id].pc # "head") =>
                PersistedStatus(id) # "pending"
          /\ (HasRow(db, id) /\ HasRow(db', id)
                /\ RowOfId(db', id).status # RowOfId(db, id).status) =>
                <<RowOfId(db, id).status, RowOfId(db', id).status>> \in LifecycleTransitions
      ]_vars

\* A record as load_downloads gives it back: the reason of Failed is lost
ReadBack(r) ==
    [r EXCEPT !.status = IF @.tag = "Failed" THEN Failed("Unknown error") ELSE @]

\* C20: after save_download(r), load_downloads has exactly one entry with
\* the id of r, equal to r in every field except that Failed(reason) reads
\* back as Failed("Unknown error"), also when a record of that id was saved
\* before; delete_download of an id that is absent leaves the store as it was
C20_RoundTrip ==
    /\ (unit.fn = "store" /\ unit.op = "save") =>
          LET found == {d \in load_downloads(unit.store) : d.id = unit.arg.id}
          IN /\ Cardinality(found) = 1
             /\ Cardinality({r \in unit.store : r.id = unit.arg.id}) = 1
             /\ \A d \in found : d = ReadBack(unit.arg)
    /\ (unit.fn = "store" /\ unit.op = "delete"
          /\ ~\E r \in unit.before : r.id = unit.arg.id) =>
          unit.store = unit.before

\* The responses owed for the payloads sent, of which `arrived` bytes came in
RECURSIVE ResponsesOwed(_, _)
ResponsesOwed(payloads, arrived) ==
    IF payloads = <<>> \/ arrived < 4 + Len(Head(payloads)) THEN <<>>
    ELSE ( IF Head(payloads) = <<>> THEN <<>>
           ELSE IF Head(payloads) \in RequestPayloads
                THEN << [success |-> TRUE, message |-> <<>>] >>
                ELSE << [success |-> FALSE, message |-> <<"Invalid message format">>] >> )
         \o ResponsesOwed(Tail(payloads), arrived - 4 - Len(Head(payloads)))

\* C21: the bridge answers every non-empty complete frame with one
\* response, in request order: success=false, "Invalid message format" for
\* a payload that is no request, success=true otherwise; the end of input,
\* also inside a frame, ends the loop cleanly with nothing more written
C21_BridgeResponses ==
    unit.fn = "bridge" =>
        LET owed == ResponsesOwed(unit.sent, unit.cut)
        IN /\ Len(unit.stdout) <= Len(owed)
           /\ unit.stdout = SubSeq(owed, 1, Len(unit.stdout))
           /\ unit.pc = "exited" => (unit.stdout = owed /\ unit.result = "Ok")

\* The input ended inside the third frame, after a payload that was no
\* request and a request had been answered in that order
C21_Witness ==
    /\ unit.fn = "bridge"
    /\ unit.pc = "exited"
    /\ Len(unit.sent) = 3
    /\ unit.cut < Len(FrameBytes(unit.sent))
    /\ Len(unit.stdout) = 2
    /\ ~unit.stdout[1].success
    /\ unit.stdout[2].success

\* C22: every save of a record that is already stored (a status
\* transition or a progress update) writes the clock value of that moment
\* as its updated_at, never the updated_at of the record that was loaded
C22_UpdatedAtRefreshed ==
    [][\A id \in Ids :
          (HasRow(db, id) /\ events'[id].n # events[id].n) =>
              RowOfId(db', id).updated_at = now'
      ]_vars

\* C23: once the supervisor of a download has exited and removed its id from
\* the registry, nothing of that download is saved or emitted any more and
\* none of its part-files is written
C23_QuiescentAfterExit ==
    [][\A id \in Ids :
          (sup[id].pc = "exited" /\ id \notin active_downloads) =>
              /\ db' = db
              /\ events'[id] = events[id]
              /\ files'[id] = files[id]
      ]_vars

\* C24: a control call that waits for room in the command channel, holding
\* the registry lock, waits on a supervisor that will receive again: one that
\* is in its select loop, not inside download_file or on its way to remove
\* its id (which needs the lock the call holds)
C24_NoControlDeadlock ==
    (handler.pc = "send" /\ Len(chan[handler.id]) >= ChannelCapacity) =>
        sup[handler.id].pc = "select"

\* C25: two downloads that are live at the same time write disjoint sets of
\* files (final path and part-files), whatever their URLs are
C25_FileIsolation ==
    (unit.fn = "paths" /\ \A k \in 1..2 : unit.d[k].pc = "transferred") =>
        unit.d[1].written \cap unit.d[2].written = {}

\* C26: a supervisor that received Pause before its first tick starts no
\* transfer and has created no file for as long as it is paused; and once a
\* supervisor that received Cancel while paused like that has exited and no
\* handler runs, no file was created, the id is out of the registry and the
\* persisted status is cancelled
C26_PauseBeforeTransfer ==
    \A id \in Ids :
        /\ (sup[id].pc = "select" /\ sup[id].paused) =>
               (~ENABLED SupTick(id) /\ files[id] = NoFiles)
        /\ (sup[id].pc = "exited" /\ sup[id].paused /\ sup[id].cancelled
                /\ handler.pc = "idle") =>
               /\ files[id] = NoFiles
               /\ id \notin active_downloads
               /\ PersistedStatus(id) = "cancelled"
====
